---- MODULE Spec2Model ----
(***************************************************************************)
(* A model of the two example notebooks of the repository:                 *)
(*   examples/user_guide/Plotting_with_Bokeh.ipynb                         *)
(*   examples/reference/streams/bokeh/BoundsY.ipynb                        *)
(* The notebooks are straight-line scripts, cell after cell.  What they    *)
(* call (the renderer, streams and DynamicMaps, Layout plots, legends) is  *)
(* library code that is not part of the two files; the operators that      *)
(* stand for it say so in their comments.                                  *)
(***************************************************************************)
EXTENDS Integers, Sequences, FiniteSets, TLC

VARIABLES
    \* ---- notebook execution ----
    nb,                \* the notebook being run
    pc,                \* <<cell, statement>> about to execute
    prevPc,            \* position of the statement executed last (<<0,0>>: none)
    status,            \* "running" | "done" | "error"
    ns,                \* names bound in the kernel's namespace
    sysModules,        \* modules the interpreter has loaded (sys.modules)
    dataPresent,       \* the stocks sample data files are on disk
    rendererTheme,     \* hv.renderer('bokeh').theme
    plots,             \* plots rendered so far: [cell, line, theme]
    firstImportRaised, \* line 197 raised
    downloadCalls,     \* calls of bokeh.sampledata.download()
    importAttempted,   \* line 202 was attempted
    raisedAt,          \* source line whose exception ended the run (0: none)
    errType,           \* the exception's type ("": none)
    \* ---- BoundsY stream ----
    queue,             \* selection events sent by the browser, not yet handled
    lastSent,          \* bounds of the last selection the user made
    boundsy,           \* contents of bounds_stream
    lastEvent,         \* bounds of the last event handled
    display,           \* what each DynamicMap shows
    \* ---- linked axes ----
    axLayout,          \* the Layout on screen
    ranges,            \* Range object -> <<start, end>>
    \* ---- linked brushing ----
    selLayout,         \* the Layout/GridSpace on screen
    sds,               \* its shared_datasource option
    toggled,           \* the option was changed from what the notebook sets
    selected,          \* data source object -> selected rows
    selPlot,           \* plot of the last selection (0: none)
    \* ---- interactive legends ----
    muted,             \* <<overlay, element>> -> muted
    lastClick,         \* <<overlay, entry>> clicked last (<<"", "">>: none)
    prevClick,         \* the click before that
    before1,           \* muted as it was before the last click
    before2            \* muted as it was before the last two clicks

nbVars   == <<nb, pc, prevPc, status, ns, sysModules, dataPresent, rendererTheme,
              plots, firstImportRaised, downloadCalls, importAttempted, raisedAt,
              errType>>
strVars  == <<queue, lastSent, boundsy, lastEvent, display>>
axVars   == <<axLayout, ranges>>
selVars  == <<selLayout, sds, toggled, selected, selPlot>>
legVars  == <<muted, lastClick, prevClick, before1, before2>>
vars     == <<nbVars, strVars, axVars, selVars, legVars>>

\* What a part of the model leaves alone: the other parts.
notNb  == <<strVars, axVars, selVars, legVars>>
notStr == <<nbVars, axVars, selVars, legVars>>
notAx  == <<nbVars, strVars, selVars, legVars>>
notSel == <<nbVars, strVars, axVars, legVars>>
notLeg == <<nbVars, strVars, axVars, selVars>>

----------------------------------------------------------------------------
(* Notebook cells.  A statement is [line, kind, reads, binds]: the source  *)
(* line, what it does, the free names it reads and the names it binds.     *)
(* Builtins (print, chr, range, sorted, zip, dict, enumerate) and the      *)
(* variables a comprehension binds for itself are not free names.          *)

S(line, kind, reads, binds) ==
    [line |-> line, kind |-> kind, reads |-> reads, binds |-> binds]

\* Cell 10 had line 293 not kept its Image under the name img.
BokehCell10NoImg ==
  << S(291, "plain", {"np"}, {"x", "y"}),
     S(293, "plain", {"hv", "np", "x", "y"}, {}),
     S(294, "display", {"img"}, {}) >>

\* x,y = np.mgrid[...]; img = hv.Image(...); img.relabel('Low') * ...
BokehCell10 ==
  << S(291, "plain", {"np"}, {"x", "y"}),
     S(293, "plain", {"hv", "np", "x", "y"}, {"img"}),
     S(294, "display", {"img"}, {}) >>

\* Cell 21 had it read the renderer without setting its theme.
ThemeCellUnset == << S(587, "plain", {"hv", "theme"}, {}) >>

\* hv.renderer('bokeh').theme = theme
ThemeCell == << S(587, "settheme", {"hv", "theme"}, {}) >>

\* The stocks cell had it downloaded the data without trying the import first.
StocksCellAlways ==
  << S(199, "handler_import", {}, {"bokeh"}),
     S(200, "download", {"bokeh"}, {}),
     S(202, "from_import", {}, {"GOOG", "AAPL"}),
     S(203, "plain", {"np", "GOOG"}, {"goog_dates"}),
     S(204, "plain", {"np", "AAPL"}, {"aapl_dates"}),
     S(205, "display", {"hv", "goog_dates", "GOOG", "aapl_dates", "AAPL"}, {}) >>

\* try: import bokeh.sampledata.stocks
\* except: import bokeh.sampledata; bokeh.sampledata.download()
\* from bokeh.sampledata.stocks import GOOG, AAPL ...
StocksCell ==
  << S(197, "try_import", {}, {"bokeh"}),
     S(199, "handler_import", {}, {"bokeh"}),
     S(200, "download", {"bokeh"}, {}),
     S(202, "from_import", {}, {"GOOG", "AAPL"}),
     S(203, "plain", {"np", "GOOG"}, {"goog_dates"}),
     S(204, "plain", {"np", "AAPL"}, {"aapl_dates"}),
     S(205, "display", {"hv", "goog_dates", "GOOG", "aapl_dates", "AAPL"}, {}) >>

BokehCells ==
  << \* cell 1
     << S(38, "plain", {}, {"np"}),
        S(39, "plain", {}, {"pd"}),
        S(40, "plain", {}, {"hv"}) >>,
     \* cell 2
     << S(49, "extension", {"hv"}, {}) >>,
     \* cell 3
     << S(79, "plain", {}, {"line_properties", "fill_properties", "text_properties"}),
        S(81, "plain", {"line_properties", "fill_properties", "text_properties"}, {}) >>,
     \* cell 4
     << S(101, "plain", {}, {"curve_opts"}),
        S(102, "plain", {}, {"point_opts"}),
        S(103, "plain", {}, {"text_opts"}),
        S(104, "plain", {"np"}, {"xs"}),
        S(105, "plain", {"xs", "np"}, {"data"}),
        S(107, "display", {"hv", "data", "curve_opts", "point_opts", "text_opts"}, {}) >>,
     \* cell 5
     << S(140, "display", {"hv", "data"}, {}) >>,
     \* cell 6
     << S(163, "plain", {"hv", "np", "xs"}, {"points"}),
        S(164, "plain", {}, {"axes_opts"}),
        S(171, "display", {"hv", "points", "axes_opts"}, {}) >>,
     \* cell 7
     StocksCell,
     \* cell 8
     << S(227, "plain", {"hv"}, {"points"}),
        S(228, "display", {"hv", "points"}, {}) >>,
     \* cell 9
     << S(250, "plain", {"hv", "np"}, {"overlay"}),
        S(253, "plain", {"hv", "overlay", "np"}, {"errorbars"}),
        S(256, "plain", {"hv", "overlay"}, {"global_mean"}),
        S(258, "display", {"errorbars", "overlay", "hv", "global_mean"}, {}) >>,
     \* cell 10
     BokehCell10,
     \* cell 11
     << S(326, "display", {"hv", "np"}, {}) >>,
     \* cell 12
     << S(356, "plain", {"hv", "np"}, {"points"}),
        S(357, "display", {"points"}, {}) >>,
     \* cell 13
     << S(373, "display", {"img"}, {}) >>,
     \* cell 14
     << S(397, "plain", {"hv", "img", "np", "x", "y"}, {"hmap"}),
        S(399, "display", {"hmap"}, {}) >>,
     \* cell 15
     << S(431, "plain", {"np"}, {"error"}),
        S(432, "plain", {}, {"heatmap_data"}),
        S(433, "plain", {"np"}, {"data"}),
        S(434, "plain", {"np", "data"}, {"hist"}),
        S(435, "display", {"hv", "error", "heatmap_data", "hist"}, {}) >>,
     \* cell 16
     << S(459, "display", {"hv", "error"}, {}) >>,
     \* cell 17
     << S(484, "read_csv", {"pd"}, {"macro_df"}) >>,
     \* cell 18
     << S(501, "display", {"hv", "macro_df"}, {}) >>,
     \* cell 19
     << S(519, "plain", {"hv", "macro_df"}, {"table"}),
        S(520, "plain", {"hv", "table"}, {"matrix"}),
        S(521, "display", {"matrix"}, {}) >>,
     \* cell 20
     << S(548, "plain", {}, {"Theme"}),
        S(550, "plain", {"Theme"}, {"theme"}) >>,
     \* cell 21
     ThemeCell,
     \* cell 22
     << S(604, "plain", {"np"}, {"xs"}),
        S(605, "display", {"hv", "xs", "np"}, {}) >> >>

\* The display at line 52 evaluates both DynamicMaps, so it reads what the
\* bodies of make_area and make_items read.
BoundsYCells ==
  << << S(23, "plain", {}, {"np"}),
        S(24, "plain", {}, {"hv"}),
        S(25, "plain", {}, {"streams"}),
        S(26, "extension", {"hv"}, {}) >>,
     << S(37, "plain", {"np"}, {"xs"}),
        S(38, "plain", {"xs"}, {"ys"}),
        S(39, "plain", {"hv", "xs", "ys"}, {"curve"}),
        S(41, "plain", {"streams", "curve"}, {"bounds_stream"}),
        S(43, "plain", {}, {"make_area"}),
        S(47, "plain", {}, {"make_items"}),
        S(52, "display", {"curve", "hv", "make_area", "make_items", "bounds_stream",
                          "xs", "ys", "np"}, {}) >> >>

Notebooks == {"Plotting_with_Bokeh", "BoundsY"}

Cells(n) == IF n = "Plotting_with_Bokeh" THEN BokehCells ELSE BoundsYCells

\* Index of the theme-assignment cell and of the stocks cell in BokehCells.
ThemeCellIndex  == 21
StocksCellIndex == 7

----------------------------------------------------------------------------
(* Running a notebook: the kernel executes the cells in document order,    *)
(* one statement at a time; an exception that leaves a cell ends the run.  *)

Cur == Cells(nb)[pc[1]][pc[2]]

After(p) ==
    IF p[2] < Len(Cells(nb)[p[1]]) THEN <<p[1], p[2] + 1>> ELSE <<p[1] + 1, 1>>

\* Control moves to position p (past the last cell: the run is done).
Goto(p) ==
    /\ pc' = p
    /\ prevPc' = pc
    /\ status' = IF p[1] > Len(Cells(nb)) THEN "done" ELSE "running"

\* An exception of type t leaves the cell.
Raise(t) ==
    /\ status' = "error"
    /\ raisedAt' = Cur.line
    /\ errType' = t
    /\ prevPc' = pc
    /\ UNCHANGED pc

\* A statement of kind k is next.
At(k) == status = "running" /\ Cur.kind = k

\* Reading an unbound name raises NameError before the statement has any
\* effect.
Unbound == ~(Cur.reads \subseteq ns)

NameError ==
    /\ Raise("NameError")
    /\ UNCHANGED <<nb, ns, sysModules, dataPresent, rendererTheme, plots,
                   firstImportRaised, downloadCalls, importAttempted>>

\* The renderer draws a plot with the theme it holds at that moment
\* (library behaviour, as the notebook describes it at lines 578 and 594).
Render(cell, line, theme) == [cell |-> cell, line |-> line, theme |-> theme]

\* `import a.b.c` loads a, a.b and a.b.c.
Parents(m) ==
    IF m = "bokeh.sampledata.stocks" THEN {"bokeh", "bokeh.sampledata"}
    ELSE IF m = "bokeh.sampledata" THEN {"bokeh"}
    ELSE {}

\* bokeh.sampledata.stocks opens the downloaded data files when it is loaded
\* and raises when they are missing; the packages above it read no data.
ModuleRaises(m) ==
    m = "bokeh.sampledata.stocks" /\ m \notin sysModules /\ ~dataPresent

\* An assignment, def, import of an installed library, or expression statement.
ExecPlain ==
    /\ UNCHANGED notNb
    /\ At("plain")
    /\ IF Unbound THEN NameError
       ELSE /\ ns' = ns \cup Cur.binds
            /\ Goto(After(pc))
            /\ UNCHANGED <<nb, sysModules, dataPresent, rendererTheme, plots,
                           firstImportRaised, downloadCalls, importAttempted,
                           raisedAt, errType>>

\* hv.extension('bokeh') loads the bokeh backend.
ExecExtension ==
    /\ UNCHANGED notNb
    /\ At("extension")
    /\ IF Unbound THEN NameError
       ELSE /\ sysModules' = sysModules \cup {"bokeh"}
            /\ Goto(After(pc))
            /\ UNCHANGED <<nb, ns, dataPresent, rendererTheme, plots,
                           firstImportRaised, downloadCalls, importAttempted,
                           raisedAt, errType>>

\* The last expression of a cell is displayed: the renderer draws it.
ExecDisplay ==
    /\ UNCHANGED notNb
    /\ At("display")
    /\ IF Unbound THEN NameError
       ELSE /\ plots' = Append(plots, Render(pc[1], Cur.line, rendererTheme))
            /\ Goto(After(pc))
            /\ UNCHANGED <<nb, ns, sysModules, dataPresent, rendererTheme,
                           firstImportRaised, downloadCalls, importAttempted,
                           raisedAt, errType>>

\* hv.renderer('bokeh').theme = theme
ExecSetTheme ==
    /\ UNCHANGED notNb
    /\ At("settheme")
    /\ IF Unbound THEN NameError
       ELSE /\ rendererTheme' = "theme"
            /\ Goto(After(pc))
            /\ UNCHANGED <<nb, ns, sysModules, dataPresent, plots,
                           firstImportRaised, downloadCalls, importAttempted,
                           raisedAt, errType>>

\* try: import bokeh.sampledata.stocks / except: -> the handler
ExecTryImport ==
    /\ UNCHANGED notNb
    /\ At("try_import")
    /\ IF ModuleRaises("bokeh.sampledata.stocks")
       THEN /\ firstImportRaised' = TRUE
            /\ sysModules' = sysModules \cup Parents("bokeh.sampledata.stocks")
            /\ Goto(After(pc))
            /\ UNCHANGED ns
       ELSE /\ sysModules' = sysModules \cup Parents("bokeh.sampledata.stocks")
                                        \cup {"bokeh.sampledata.stocks"}
            /\ ns' = ns \cup Cur.binds
            /\ Goto(After(After(After(pc))))
            /\ UNCHANGED firstImportRaised
    /\ UNCHANGED <<nb, dataPresent, rendererTheme, plots, downloadCalls,
                   importAttempted, raisedAt, errType>>

\* import bokeh.sampledata (in the handler)
ExecHandlerImport ==
    /\ UNCHANGED notNb
    /\ At("handler_import")
    /\ sysModules' = sysModules \cup Parents("bokeh.sampledata") \cup {"bokeh.sampledata"}
    /\ ns' = ns \cup Cur.binds
    /\ Goto(After(pc))
    /\ UNCHANGED <<nb, dataPresent, rendererTheme, plots, firstImportRaised,
                   downloadCalls, importAttempted, raisedAt, errType>>

\* bokeh.sampledata.download(): it fetches the files, or returns without
\* having fetched them, or raises (no network).
ExecDownload ==
    /\ UNCHANGED notNb
    /\ At("download")
    /\ IF Unbound THEN NameError
       ELSE /\ downloadCalls' = downloadCalls + 1
            /\ \E outcome \in {"fetched", "nothing", "raise"} :
                 IF outcome = "raise"
                 THEN /\ Raise("IOError")
                      /\ UNCHANGED dataPresent
                 ELSE /\ dataPresent' = (dataPresent \/ outcome = "fetched")
                      /\ Goto(After(pc))
                      /\ UNCHANGED <<raisedAt, errType>>
            /\ UNCHANGED <<nb, ns, sysModules, rendererTheme, plots,
                           firstImportRaised, importAttempted>>

\* from bokeh.sampledata.stocks import GOOG, AAPL
ExecFromImport ==
    /\ UNCHANGED notNb
    /\ At("from_import")
    /\ importAttempted' = TRUE
    /\ IF ModuleRaises("bokeh.sampledata.stocks")
       THEN /\ Raise("RuntimeError")
            /\ sysModules' = sysModules \cup Parents("bokeh.sampledata.stocks")
            /\ UNCHANGED ns
       ELSE /\ sysModules' = sysModules \cup Parents("bokeh.sampledata.stocks")
                                        \cup {"bokeh.sampledata.stocks"}
            /\ ns' = ns \cup Cur.binds
            /\ Goto(After(pc))
            /\ UNCHANGED <<raisedAt, errType>>
    /\ UNCHANGED <<nb, dataPresent, rendererTheme, plots, firstImportRaised,
                   downloadCalls>>

\* pd.read_csv('http://assets.holoviews.org/macro.csv', '\t')
ExecReadCsv ==
    /\ UNCHANGED notNb
    /\ At("read_csv")
    /\ IF Unbound THEN NameError
       ELSE /\ \E ok \in BOOLEAN :
                 IF ok THEN /\ ns' = ns \cup Cur.binds
                            /\ Goto(After(pc))
                            /\ UNCHANGED <<raisedAt, errType>>
                       ELSE /\ Raise("URLError")
                            /\ UNCHANGED ns
            /\ UNCHANGED <<nb, sysModules, dataPresent, rendererTheme, plots,
                           firstImportRaised, downloadCalls, importAttempted>>

NextNb ==
    \/ ExecPlain
    \/ ExecExtension
    \/ ExecDisplay
    \/ ExecSetTheme
    \/ ExecTryImport
    \/ ExecHandlerImport
    \/ ExecDownload
    \/ ExecFromImport
    \/ ExecReadCsv

----------------------------------------------------------------------------
(* BoundsY.ipynb, cell 2: a curve, one BoundsY stream on it, and two       *)
(* DynamicMaps fed by that stream.  The curve ys = xs*(1-xs) is sampled on *)
(* the grid 0..GridN (x stands for x/GridN, y for y/GridN^2) and a         *)
(* selection picks two of the levels the samples take.                     *)

GridN == 4

MaxQueue == 2

Min(a, b) == IF a <= b THEN a ELSE b

xs == 0 .. GridN

ys(x) == x * (GridN - x)

Levels == {ys(x) : x \in xs}

\* A ybox_select gives (y0, y1) with y0 <= y1.
Bounds == {b \in Levels \X Levels : b[1] <= b[2]}

\* bounds_stream = streams.BoundsY(source=curve, boundsy=(0,0))
InitialBoundsy == <<0, 0>>

\* def make_area(boundsy)
make_area(b) ==
    [x \in xs |-> [min |-> Min(ys(x), b[1]), max |-> Min(ys(x), b[2])]]

\* sorted(np.roots([-1, 1, -b])): the two roots of -x^2 + x - b, ascending.
SortedRoots(b) ==
    LET R == {x \in xs : ys(x) = b}
    IN  << CHOOSE x \in R : \A z \in R : x <= z,
           CHOOSE x \in R : \A z \in R : x >= z >>

\* "{0:.2f}".format(x): the value in hundredths, rounded.
Format2f(x) == (200 * x + GridN) \div (2 * GridN)

ItemLabels == << "1_entry", "2_exit", "1_exit", "2_entry" >>

\* Positions of ItemLabels in ascending order of the labels.
LabelOrder == << 1, 3, 4, 2 >>

\* def make_items(boundsy)
make_items(b) ==
    LET roots == SortedRoots(b[1]) \o SortedRoots(b[2])
        times == [i \in 1 .. 4 |-> Format2f(roots[i])]
        zipped == [i \in 1 .. 4 |-> <<ItemLabels[i], times[i]>>]
    IN  [i \in 1 .. 4 |-> zipped[LabelOrder[i]]]

\* The two DynamicMaps had make_items been given a stream of its own.
DynamicMapStreamsSplit ==
    [make_area |-> {"bounds_stream"}, make_items |-> {"other_stream"}]

\* hv.DynamicMap(make_area, streams=[bounds_stream]) and
\* hv.DynamicMap(make_items, streams=[bounds_stream])
DynamicMapStreams ==
    [make_area |-> {"bounds_stream"}, make_items |-> {"bounds_stream"}]

DynamicMaps == DOMAIN DynamicMapStreams

Callback(d, b) == IF d = "make_area" THEN make_area(b) ELSE make_items(b)

\* A stream event sets the stream's contents and then every DynamicMap
\* subscribed to the stream is evaluated again with those contents
\* (library behaviour).
Trigger(stream, contents, shown) ==
    [d \in DynamicMaps |->
        IF stream \in DynamicMapStreams[d] THEN Callback(d, contents) ELSE shown[d]]

\* The user drags a y-range on the curve; the browser sends the bounds.
SelectBounds ==
    /\ Len(queue) < MaxQueue
    /\ \E b \in Bounds : queue' = Append(queue, b) /\ lastSent' = b
    /\ UNCHANGED <<boundsy, lastEvent, display>>
    /\ UNCHANGED notStr

\* The kernel handles the next event: bounds_stream.event(boundsy=b).
HandleEvent ==
    /\ queue # <<>>
    /\ boundsy' = Head(queue)
    /\ lastEvent' = Head(queue)
    /\ display' = Trigger("bounds_stream", Head(queue), display)
    /\ queue' = Tail(queue)
    /\ UNCHANGED lastSent
    /\ UNCHANGED notStr

NextStream ==
    \/ SelectBounds
    \/ HandleEvent

----------------------------------------------------------------------------
(* Layouts of Plotting_with_Bokeh.ipynb.  A plot is [data, dims]: the      *)
(* object it draws from and the dimensions on its x and y axis.            *)

MaxCoord == 2

MaxRows == 2

P(data, xdim, ydim) == [data |-> <<data, "">>, dims |-> <<xdim, ydim>>]

\* A histogram computed from column v of data: it draws from the bin counts.
H(data, v) == [data |-> <<data, v>>, dims |-> <<v, "Frequency">>]

\* Plot options a Layout has when the notebook sets none (library defaults).
DefaultLayoutOpts == [shared_axes |-> TRUE, shared_datasource |-> TRUE]

\* %%opts ... Layout [shared_axes=False]
HoverLayoutOpts == [shared_axes |-> FALSE, shared_datasource |-> TRUE]

\* The Scatter Layout had its options been switched off.
ScatterLayoutOptsUnlinked == [shared_axes |-> FALSE, shared_datasource |-> FALSE]

\* %%opts ... Layout [shared_axes=True shared_datasource=True]
ScatterLayoutOpts == [shared_axes |-> TRUE, shared_datasource |-> TRUE]

\* hv.operation.gridmatrix: a scatter for every pair of different variables
\* and a histogram, computed from the column, on the diagonal.
GridMatrix(data, v1, v2) ==
    << H(data, v1), P(data, v2, v1), P(data, v1, v2), H(data, v2) >>

Layouts ==
    [ style   |-> [plots |-> << P("data", "x", "y"), P("data", "x", "y"),
                                P("text", "x", "y") >>,
                   opts  |-> DefaultLayoutOpts],
      sizing  |-> [plots |-> << P("data", "x", "y"), P("data", "x", "y") >>,
                   opts  |-> DefaultLayoutOpts],
      axes    |-> [plots |-> [i \in 1 .. 6 |-> P("points", "x", "y")],
                   opts  |-> DefaultLayoutOpts],
      hover   |-> [plots |-> << P("error", "x", "y"), P("heatmap_data", "x", "y"),
                                P("hist", "x", "Frequency") >>,
                   opts  |-> HoverLayoutOpts],
      scatter |-> [plots |-> << P("macro_df", "year", "gdp"),
                                P("macro_df", "gdp", "unem") >>,
                   opts  |-> ScatterLayoutOpts],
      gridmatrix |-> [plots |-> GridMatrix("macro_df", "gdp", "unem"),
                      opts  |-> DefaultLayoutOpts] ]

AxLayouts == {"style", "sizing", "axes", "hover", "scatter"}

SelLayouts == {"scatter", "gridmatrix"}

PlotsOf(l) == DOMAIN Layouts[l].plots

Axes == {1, 2}

\* What an axis shows: a dimension of a data object.
Key(l, i, a) == <<Layouts[l].plots[i].data, Layouts[l].plots[i].dims[a]>>

\* <<j, b>> comes before <<i, a>> in the order the plots and axes are built.
Before(j, b, i, a) == j < i \/ (j = i /\ b <= a)

\* The Range object behind axis a of plot i.  With shared_axes the Layout
\* gives an axis the Range of the first axis built that shows the same
\* dimension of the same data; otherwise the axis has a Range of its own
\* (library behaviour, as the notebook describes it at lines 116 and 473).
RangeRef(l, i, a) ==
    IF Layouts[l].opts.shared_axes
    THEN CHOOSE r \in PlotsOf(l) \X Axes :
            /\ Key(l, r[1], r[2]) = Key(l, i, a)
            /\ Before(r[1], r[2], i, a)
            /\ \A q \in PlotsOf(l) \X Axes :
                  Key(l, q[1], q[2]) = Key(l, i, a) => Before(r[1], r[2], q[1], q[2])
    ELSE <<i, a>>

RangeIds(l) == {RangeRef(l, i, a) : i \in PlotsOf(l), a \in Axes}

Intervals == {v \in (0 .. MaxCoord) \X (0 .. MaxCoord) : v[1] < v[2]}

FullRange == <<0, MaxCoord>>

AxisRange(i, a) == ranges[RangeRef(axLayout, i, a)]

\* The user zooms or pans axis a of plot i: its Range object changes.
PanZoom ==
    /\ \E i \in PlotsOf(axLayout), a \in Axes, v \in Intervals :
          ranges' = [ranges EXCEPT ![RangeRef(axLayout, i, a)] = v]
    /\ UNCHANGED axLayout
    /\ UNCHANGED notAx

NextAxes == PanZoom

----------------------------------------------------------------------------
(* Linked brushing.  With shared_datasource the plots of a Layout that     *)
(* draw from the same data object share one data source, and the selection *)
(* is kept on the source (library behaviour, as the notebook describes it  *)
(* at lines 491 and 509).                                                  *)

Rows == 1 .. MaxRows

SourceRef(l, shared, i) ==
    IF shared
    THEN CHOOSE j \in PlotsOf(l) :
            /\ Layouts[l].plots[j].data = Layouts[l].plots[i].data
            /\ \A k \in PlotsOf(l) :
                  Layouts[l].plots[k].data = Layouts[l].plots[i].data => j <= k
    ELSE i

SourceIds(l, shared) == {SourceRef(l, shared, i) : i \in PlotsOf(l)}

Highlighted(i) == selected[SourceRef(selLayout, sds, i)]

\* The user selects rows with box_select or lasso_select in plot i.
Select ==
    /\ \E i \in PlotsOf(selLayout), rows \in SUBSET Rows :
          /\ selected' = [selected EXCEPT ![SourceRef(selLayout, sds, i)] = rows]
          /\ selPlot' = i
    /\ UNCHANGED <<selLayout, sds, toggled>>
    /\ UNCHANGED notSel

\* The user flips the shared_datasource plot option and displays the
\* Layout again: new plots, new sources, nothing selected.
ToggleSharedDatasource ==
    /\ sds' = ~sds
    /\ toggled' = ~toggled
    /\ selected' = [r \in SourceIds(selLayout, ~sds) |-> {}]
    /\ selPlot' = 0
    /\ UNCHANGED selLayout
    /\ UNCHANGED notSel

NextSel ==
    \/ Select
    \/ ToggleSharedDatasource

----------------------------------------------------------------------------
(* Legends of the overlays of Plotting_with_Bokeh.ipynb.                   *)

\* The two curves had both been labelled 'Google'.
StockLabelsSame == << "Google", "Google" >>

\* hv.Curve(..., label='Google') * hv.Curve(..., label='Apple')
StockLabels == << "Google", "Apple" >>

\* hv.NdOverlay({i: hv.Histogram(...) for i in range(5)})
HistogramKeys == << 0, 1, 2, 3, 4 >>

\* errorbars * overlay * hv.Curve(errorbars) * global_mean
CategoricalLabels == << "ErrorBars", "NdOverlay", "Curve", "Text" >>

\* labels: what names each element in the legend; show_legend: the plot
\* option of the overlay (line 247 sets it to False, the default is True).
Overlays ==
    [ stocks      |-> [labels |-> StockLabels, show_legend |-> TRUE],
      categorical |-> [labels |-> CategoricalLabels, show_legend |-> FALSE],
      histograms  |-> [labels |-> [i \in DOMAIN HistogramKeys |-> ToString(HistogramKeys[i])],
                       show_legend |-> TRUE] ]

OverlayNames == DOMAIN Overlays

Elements == {e \in OverlayNames \X (1 .. 5) : e[2] \in DOMAIN Overlays[e[1]].labels}

Label(e) == Overlays[e[1]].labels[e[2]]

\* The legend of an overlay has one entry per label (library behaviour).
LegendEntries(o) ==
    IF Overlays[o].show_legend
    THEN {Label(e) : e \in {x \in Elements : x[1] = o}}
    ELSE {}

NoClick == <<"", "">>

\* Clicking a legend entry flips the muted state of what the entry stands
\* for (library behaviour, as the notebook describes it at lines 186, 316).
Click ==
    \E o \in OverlayNames : \E k \in LegendEntries(o) :
        /\ UNCHANGED notLeg
        /\ muted' = [e \in Elements |->
                        IF e[1] = o /\ Label(e) = k THEN ~muted[e] ELSE muted[e]]
        /\ lastClick' = <<o, k>>
        /\ prevClick' = lastClick
        /\ before1' = muted
        /\ before2' = before1

NextLegend == Click

----------------------------------------------------------------------------
(* Initial states and specifications.                                      *)

InitNb(notebooks, present) ==
    /\ nb \in notebooks
    /\ pc = <<1, 1>>
    /\ prevPc = <<0, 0>>
    /\ status = "running"
    /\ ns = {}
    /\ sysModules = {}
    /\ dataPresent \in present
    /\ rendererTheme = "default"
    /\ plots = <<>>
    /\ firstImportRaised = FALSE
    /\ downloadCalls = 0
    /\ importAttempted = FALSE
    /\ raisedAt = 0
    /\ errType = ""

\* BoundsY.ipynb after its last cell ran: both DynamicMaps show the stream's
\* initial contents.
InitStream ==
    /\ queue = <<>>
    /\ lastSent = InitialBoundsy
    /\ boundsy = InitialBoundsy
    /\ lastEvent = InitialBoundsy
    /\ display = [d \in DynamicMaps |-> Callback(d, InitialBoundsy)]

InitAxes(ls) ==
    /\ axLayout \in ls
    /\ ranges = [r \in RangeIds(axLayout) |-> FullRange]

InitSel(ls) ==
    /\ selLayout \in ls
    /\ sds = Layouts[selLayout].opts.shared_datasource
    /\ toggled = FALSE
    /\ selected = [r \in SourceIds(selLayout, sds) |-> {}]
    /\ selPlot = 0

InitLegend ==
    /\ muted = [e \in Elements |-> FALSE]
    /\ lastClick = NoClick
    /\ prevClick = NoClick
    /\ before1 = muted
    /\ before2 = muted

\* A notebook is run from its first cell, with or without the sample data.
InitRun ==
    /\ InitNb(Notebooks, BOOLEAN)
    /\ InitStream /\ InitAxes({"style"}) /\ InitSel({"scatter"}) /\ InitLegend

SpecNb == InitRun /\ [][NextNb]_vars

\* BoundsY.ipynb is on screen and the user selects y-ranges.
InitBoundsY ==
    /\ InitNb({"BoundsY"}, {TRUE})
    /\ InitStream /\ InitAxes({"style"}) /\ InitSel({"scatter"}) /\ InitLegend

SpecStream == InitBoundsY /\ [][NextStream]_vars

\* A Layout of Plotting_with_Bokeh.ipynb is on screen and the user zooms and pans.
InitLayouts ==
    /\ InitNb({"Plotting_with_Bokeh"}, {TRUE})
    /\ InitStream /\ InitAxes(AxLayouts) /\ InitSel({"scatter"}) /\ InitLegend

SpecAxes == InitLayouts /\ [][NextAxes]_vars

\* The Scatter Layout or the gridmatrix is on screen and the user selects.
InitBrushing ==
    /\ InitNb({"Plotting_with_Bokeh"}, {TRUE})
    /\ InitStream /\ InitAxes({"style"}) /\ InitSel(SelLayouts) /\ InitLegend

SpecSel == InitBrushing /\ [][NextSel]_vars

\* The overlays are on screen and the user clicks legend entries.
InitOverlays ==
    /\ InitNb({"Plotting_with_Bokeh"}, {TRUE})
    /\ InitStream /\ InitAxes({"style"}) /\ InitSel({"scatter"}) /\ InitLegend

SpecLegend == InitOverlays /\ [][NextLegend]_vars

----------------------------------------------------------------------------
(* Properties.                                                             *)

InBokeh == nb = "Plotting_with_Bokeh"

\* C7: the statements of a notebook run one at a time in document order
\* (control never moves back and never skips a cell), and every name a
\* statement reads has been bound by a statement that ran before it, in the
\* same cell or an earlier one: no statement raises NameError.
C7_DocumentOrderBindsNames ==
    /\ status = "running" => Cur.reads \subseteq ns
    /\ errType # "NameError"
    /\ \/ prevPc[1] < pc[1] /\ pc[1] - prevPc[1] = 1 /\ pc[2] = 1
       \/ prevPc[1] = pc[1] /\ prevPc[2] < pc[2]
       \/ prevPc = pc /\ status = "error"

\* The whole of Plotting_with_Bokeh.ipynb has run: img, bound in cell 10, was
\* read in cells 13 and 14, error in cell 16, macro_df in cells 18 and 19,
\* theme in cell 21.
C7_Witness ==
    /\ InBokeh /\ status = "done"
    /\ {"img", "x", "y", "error", "xs", "data", "macro_df", "theme"} \subseteq ns
    /\ \E i \in DOMAIN plots : plots[i].line = 373

\* C1: every plot rendered after the cell that assigns the renderer's theme
\* is rendered with that theme, and the renderer holds it from then on.
C1_ThemeAppliedAfterAssignment ==
    InBokeh =>
        /\ \A i \in DOMAIN plots :
              plots[i].cell > ThemeCellIndex => plots[i].theme = "theme"
        /\ pc[1] > ThemeCellIndex => rendererTheme = "theme"

\* The Curve of the last cell (line 605) was rendered with the theme, while
\* an earlier plot was rendered without it.
C1_Witness ==
    /\ InBokeh
    /\ \E i \in DOMAIN plots : plots[i].line = 605 /\ plots[i].theme = "theme"
    /\ \E i \in DOMAIN plots : plots[i].cell < ThemeCellIndex /\ plots[i].theme = "default"

\* The try/except of the stocks cell is over: control is at or past line 202,
\* or an exception left the cell from the download or later.
AfterHandler ==
    \/ pc[1] > StocksCellIndex
    \/ pc[1] = StocksCellIndex /\ status = "running" /\ Cur.line >= 202
    \/ pc[1] = StocksCellIndex /\ status = "error" /\ raisedAt >= 200

\* Control is past line 202.
AfterFromImport ==
    \/ pc[1] > StocksCellIndex
    \/ pc[1] = StocksCellIndex /\ status = "running" /\ Cur.line > 202
    \/ pc[1] = StocksCellIndex /\ status = "error" /\ raisedAt >= 202

StocksCurveBuilt == \E i \in DOMAIN plots : plots[i].cell = StocksCellIndex

\* C3: in the stocks cell the download is called at most once, and it is
\* called exactly when the first import raised; unless the download raised,
\* the import of GOOG and AAPL is attempted next in both cases; and when the
\* download or that import raises, the cell stops and builds no Curve.
C3_DownloadIffFirstImportRaises ==
    InBokeh =>
        /\ downloadCalls <= 1
        /\ downloadCalls = 1 => firstImportRaised
        /\ AfterHandler => (downloadCalls = 1 <=> firstImportRaised)
        /\ AfterFromImport => importAttempted
        /\ (pc[1] = StocksCellIndex /\ status = "running" /\ AfterHandler
              /\ ~importAttempted) => Cur.line = 202
        /\ StocksCurveBuilt => importAttempted
        /\ (status = "error" /\ raisedAt \in {200, 202}) =>
              /\ ~StocksCurveBuilt
              /\ pc[1] = StocksCellIndex

\* The first import raised, the download was called once and fetched the
\* data, the import of GOOG and AAPL then succeeded and the curves were built.
C3_Witness ==
    /\ InBokeh
    /\ firstImportRaised /\ downloadCalls = 1 /\ importAttempted
    /\ StocksCurveBuilt

\* C2: the stream holds the bounds of the last event handled and both
\* DynamicMaps show what their callbacks compute from those same bounds;
\* once every selection has been handled, these are the bounds of the most
\* recent selection.
C2_BothMapsFromLatestBounds ==
    /\ boundsy = lastEvent
    /\ display.make_area = make_area(lastEvent)
    /\ display.make_items = make_items(lastEvent)
    /\ queue = <<>> => lastEvent = lastSent

\* Selections were made and handled, and both displays differ from what
\* they showed for the initial bounds.
C2_Witness ==
    /\ queue = <<>>
    /\ lastSent # InitialBoundsy
    /\ display.make_area = make_area(lastSent)
    /\ display.make_items = make_items(lastSent)
    /\ display.make_area # make_area(InitialBoundsy)
    /\ display.make_items # make_items(InitialBoundsy)

\* C4: in every Layout of the notebook, two axes that show the same
\* dimension of the same data have equal ranges, whatever was zoomed or
\* panned.
C4_LinkedAxesEqualRanges ==
    \A i, j \in PlotsOf(axLayout) : \A a, b \in Axes :
        Key(axLayout, i, a) = Key(axLayout, j, b) => AxisRange(i, a) = AxisRange(j, b)

\* The gdp axis of the Scatter Layout was zoomed: the y axis of the first
\* plot and the x axis of the second show the new range.
C4_Witness ==
    /\ axLayout = "scatter"
    /\ AxisRange(1, 2) # FullRange
    /\ AxisRange(2, 1) = AxisRange(1, 2)
    /\ AxisRange(1, 1) = FullRange

SameData(i, j) == Layouts[selLayout].plots[i].data = Layouts[selLayout].plots[j].data

\* C5: the Scatter Layout and the gridmatrix are displayed with
\* shared_datasource enabled; while it is enabled, after a selection all
\* plots built from the same data highlight the same rows; while it is
\* disabled, a selection in one plot leaves the rows highlighted in every
\* other plot as they were.
C5_SharedSelection ==
    [][ /\ ~toggled => sds
        /\ (selPlot' # 0 /\ toggled' = toggled) =>
              /\ sds => \A i, j \in PlotsOf(selLayout) :
                           SameData(i, j) => Highlighted(i)' = Highlighted(j)'
              /\ ~sds => \A j \in PlotsOf(selLayout) \ {selPlot'} :
                           Highlighted(j)' = Highlighted(j)
      ]_vars

\* In the gridmatrix, rows selected in one scatter are highlighted in the
\* other scatter, which shows the columns the other way round.
C5_Witness ==
    /\ selLayout = "gridmatrix" /\ sds
    /\ selPlot = 2
    /\ Highlighted(2) = Rows
    /\ Highlighted(3) = Rows

ElementsOf(o) == {e \in Elements : e[1] = o}

\* The click toggled element e and nothing else.
ToggledOnly(e, was, is) ==
    \A x \in Elements : is[x] = IF x = e THEN ~was[x] ELSE was[x]

ClickProperties ==
    /\ lastClick # NoClick =>
          \E e \in ElementsOf(lastClick[1]) :
              Label(e) = lastClick[2] /\ ToggledOnly(e, before1, muted)
    /\ (lastClick # NoClick /\ lastClick = prevClick) => muted = before2

====
